---- MODULE Spec2Model ----
\* Model of the openAQlatest backend: backend/models.py (DataFetcher and the
\* OpenAQ store) and backend/app.py (module-level startup and Flask routes).
EXTENDS Integers, Sequences, FiniteSets, TLC

VARIABLES
    today,        \* calendar day of the wall clock (dt.date.today())
    initial_cut,  \* DataFetcher.initial_cut, a datetime
    pc,           \* position of the process in startup / serving
    call,         \* which invocation of connect() is running
    resp,         \* body of the last upstream HTTP response
    local,        \* connect()'s locals: raw locations, raw parameters, measurements
    openAQ,       \* the OpenAQ store object
    failure,      \* the exception that aborted startup, if any
    served        \* the last HTTP response handed to a client

vars == <<today, initial_cut, pc, call, resp, local, openAQ, failure, served>>

----------------------------------------------------------------------------
\* Bounds of the model.

MaxDay == 2
MaxLocs == 2
MaxParams == 2
MaxResults == 2
MaxEntries == 2
\* Bounds of the payloads of the specification that calls connect() twice.
TwiceLocs == 1
TwiceParams == 1
TwiceResults == 1
TwiceEntries == 1

----------------------------------------------------------------------------
\* Values of the upstream payloads.

LocIds == {2, 12}
LocNames == {"A", "B"}
ParamIds == {1, 10}
ParamNames == {"pm25", "o3"}
\* A date-time string "%Y-%m-%dT%H:%M:%S+00:00" is the sequence <<day, second
\* of the day>>; the empty sequence is a string that does not match the format.
Yesterday == <<0, 1>>
Midnight == <<1, 0>>
Malformed == <<>>
LocTimes == {Yesterday, Midnight, Malformed}
Manufacturers == {<<>>, <<"m1", "m2">>}
MeasuredAt == <<1, 1>>
Values == {5}

\* Python's None where an id is expected (dict.get on a miss).
None == -1

SeqsUpTo(S, n) == UNION {[1..k -> S] : k \in 0..n}

LocationPayloads(n) ==
    SeqsUpTo([id : LocIds, name : LocNames, lastUpdated : LocTimes,
              manufacturers : Manufacturers], n)
ParameterPayloads(n) ==
    SeqsUpTo({p \in [id : ParamIds, name : ParamNames] :
                 (p.id = 1) <=> (p.name = "pm25")}, n)
LatestPayloads(n, m) ==
    SeqsUpTo([location : LocNames,
              measurements : SeqsUpTo([parameter : ParamNames,
                                       lastUpdated : {MeasuredAt},
                                       value : Values], m)], n)

\* requests.get(...).json(): the call raises, or the body has no "results",
\* or the body carries a list of results.
Response(kind, status, results) ==
    [kind |-> kind, status |-> status, results |-> results]
Responses(kind, payloads) ==
    {Response(kind, "transport", <<>>), Response(kind, "noresults", <<>>)}
    \cup {Response(kind, "ok", r) : r \in payloads}

----------------------------------------------------------------------------
\* Python values: results of calls, dicts, str() and datetimes.

Return(v) == [raised |-> "none", value |-> v]
Raise(e) == [raised |-> e, value |-> <<>>]

\* A dict is the sequence of its items in insertion order, keys unique.
DictKeys(d) == {d[i].k : i \in DOMAIN d}
DictItem(d, key) == d[CHOOSE i \in DOMAIN d : d[i].k = key]
DictSet(d, key, v) ==
    IF key \in DictKeys(d)
    THEN [i \in DOMAIN d |-> IF d[i].k = key THEN [k |-> key, v |-> v] ELSE d[i]]
    ELSE Append(d, [k |-> key, v |-> v])
\* d.get(key) on a name-to-id table: None on a miss.
DictGet(d, key) == IF key \in DictKeys(d) THEN DictItem(d, key).v ELSE None

Digits == <<"0", "1", "2", "3", "4", "5", "6", "7", "8", "9">>
RECURSIVE str(_)
str(n) ==
    IF n < 10 THEN <<Digits[n + 1]>>
    ELSE Append(str(n \div 10), Digits[(n % 10) + 1])

strptime(s) == [day |-> s[1], sec |-> s[2]]
MatchesFormat(s) == Len(s) = 2
\* datetime >= datetime
DatetimeGE(a, b) == a.day > b.day \/ (a.day = b.day /\ a.sec >= b.sec)
\* dt.datetime(year, month, day) of a date: midnight of that day.
StartOfDay(day) == [day |-> day, sec |-> 0]

----------------------------------------------------------------------------
\* DataFetcher.

KeepLocationAll(lastupdated, cut) == TRUE
KeepLocation(lastupdated, cut) == DatetimeGE(lastupdated, cut)

RECURSIVE LocationsLoop(_, _, _, _)
LocationsLoop(results, i, locs, cut) ==
    IF i > Len(results) THEN Return(locs)
    ELSE LET location == results[i] IN
         IF ~MatchesFormat(location.lastUpdated) THEN Raise("shape")
         ELSE IF KeepLocation(strptime(location.lastUpdated), cut)
         THEN IF location.manufacturers = <<>> THEN Raise("shape")
              ELSE LocationsLoop(results, i + 1,
                       DictSet(locs, location.id,
                               [name |-> location.name,
                                lastUpdated |-> location.lastUpdated,
                                modelName |-> location.manufacturers[1]]),
                       cut)
         ELSE LocationsLoop(results, i + 1, locs, cut)

fetchLocations(response, cut) ==
    IF response.status = "transport" THEN Raise("transport")
    ELSE IF response.status = "noresults" THEN Raise("shape")
    ELSE LocationsLoop(response.results, 1, <<>>, cut)

RECURSIVE ParametersLoop(_, _, _)
ParametersLoop(total_parameters, i, params) ==
    IF i > Len(total_parameters) THEN Return(params)
    ELSE LET parameter == total_parameters[i] IN
         ParametersLoop(total_parameters, i + 1,
                        DictSet(params, parameter.id, [name |-> parameter.name]))

fetchParameters(response) ==
    IF response.status = "transport" THEN Raise("transport")
    ELSE IF response.status = "noresults" THEN Raise("shape")
    ELSE ParametersLoop(response.results, 1, <<>>)

\* {d.get(id).get("name") : id for id in d}: a later item with the same name
\* replaces the id an earlier one stored.
RECURSIVE NameTable(_, _, _)
NameTable(d, i, table) ==
    IF i > Len(d) THEN table
    ELSE NameTable(d, i + 1, DictSet(table, d[i].v.name, d[i].k))

MeasurementsInitKept == openAQ.latestMeasurements
MeasurementsInit == <<>>

EmitDropMiss(measurements, tuple) ==
    IF tuple[2] = None \/ tuple[3] = None THEN measurements
    ELSE Append(measurements, tuple)
EmitFront(measurements, tuple) == <<tuple>> \o measurements
Emit(measurements, tuple) == Append(measurements, tuple)

RECURSIVE EntriesLoop(_, _, _, _, _)
EntriesLoop(raw_measurements, j, location_id, dict_parameters, measurements) ==
    IF j > Len(raw_measurements) THEN Return(measurements)
    ELSE LET measurement == raw_measurements[j] IN
         IF ~MatchesFormat(measurement.lastUpdated) THEN Raise("shape")
         ELSE EntriesLoop(raw_measurements, j + 1, location_id, dict_parameters,
                  Emit(measurements,
                       <<strptime(measurement.lastUpdated),
                         DictGet(dict_parameters, measurement.parameter),
                         location_id,
                         measurement.value>>))

RECURSIVE ResultsLoop(_, _, _, _, _)
ResultsLoop(results, i, dict_locations, dict_parameters, measurements) ==
    IF i > Len(results) THEN Return(measurements)
    ELSE LET result == results[i]
             location_id == DictGet(dict_locations, result.location)
             inner == EntriesLoop(result.measurements, 1, location_id,
                                  dict_parameters, measurements)
         IN  IF inner.raised # "none" THEN inner
             ELSE ResultsLoop(results, i + 1, dict_locations, dict_parameters,
                              inner.value)

fetchLatestMeasurements(response, locations, parameters) ==
    IF response.status = "transport" THEN Raise("transport")
    ELSE IF response.status = "noresults" THEN Raise("shape")
    ELSE ResultsLoop(response.results, 1,
                     NameTable(locations, 1, <<>>),
                     NameTable(parameters, 1, <<>>),
                     MeasurementsInit)

\* {str(id) : parameters[id] for id in presents}; parameters[id] raises
\* KeyError when id is not a key of parameters.
RECURSIVE PresentsLoop(_, _, _, _)
PresentsLoop(parameters, measurements, i, out) ==
    IF i > Len(measurements) THEN Return(out)
    ELSE LET parameterId == measurements[i][2] IN
         IF parameterId \notin DictKeys(parameters) THEN Raise("KeyError")
         ELSE PresentsLoop(parameters, measurements, i + 1,
                           DictSet(out, str(parameterId),
                                   DictItem(parameters, parameterId).v))

RECURSIVE StrKeys(_, _, _)
StrKeys(d, i, out) ==
    IF i > Len(d) THEN out
    ELSE StrKeys(d, i + 1, DictSet(out, str(d[i].k), d[i].v))

prepareParametersAll(parameters, measurements) ==
    Return(StrKeys(parameters, 1, <<>>))
prepareParametersFirst(parameters, measurements) ==
    PresentsLoop(parameters,
                 IF measurements = <<>> THEN <<>> ELSE <<measurements[1]>>,
                 1, <<>>)
prepareParameters(parameters, measurements) ==
    PresentsLoop(parameters, measurements, 1, <<>>)

prepareLocationsTruncated(locations) ==
    StrKeys([i \in 1..(Len(locations) - 1) |-> locations[i]], 1, <<>>)
prepareLocations(locations) == StrKeys(locations, 1, <<>>)

----------------------------------------------------------------------------
\* OpenAQ store, startup (app.py lines 4-7) and the Flask routes.

NoResponse == Response("none", "ok", <<>>)
NotServed == [endpoint |-> "none", body |-> <<>>]

Init ==
    /\ today = 1
    /\ initial_cut = StartOfDay(today)
    /\ pc = "constructed"
    /\ call = "first"
    /\ resp = NoResponse
    /\ local = [locations |-> <<>>, parameters |-> <<>>, measurements |-> <<>>]
    /\ openAQ = [locations |-> <<>>, parameters |-> <<>>,
                 latestMeasurements |-> <<>>, lastUpdated |-> None]
    /\ failure = "none"
    /\ served = NotServed

\* The wall clock reaches the next day between construction and connect().
Tick ==
    /\ pc = "constructed"
    /\ today < MaxDay
    /\ today' = today + 1
    /\ UNCHANGED <<initial_cut, pc, call, resp, local, openAQ, failure, served>>

\* connect(), steps 1-3: record the timestamp, fetch and filter the locations,
\* hold the copy with string keys.
connectLocations(n) ==
    /\ pc = "constructed"
    /\ \E r \in Responses("locations", LocationPayloads(n)) :
         LET out == fetchLocations(r, initial_cut) IN
         /\ resp' = r
         /\ IF out.raised # "none"
            THEN /\ pc' = "failed"
                 /\ failure' = out.raised
                 /\ openAQ' = [openAQ EXCEPT !.lastUpdated = today]
                 /\ UNCHANGED local
            ELSE /\ pc' = "gotLocations"
                 /\ local' = [local EXCEPT !.locations = out.value]
                 /\ openAQ' = [openAQ EXCEPT !.lastUpdated = today,
                                             !.locations = prepareLocations(out.value)]
                 /\ UNCHANGED failure
    /\ UNCHANGED <<today, initial_cut, call, served>>

\* connect(), step 4: fetch the parameter catalog.
connectParameters(n) ==
    /\ pc = "gotLocations"
    /\ \E r \in Responses("parameters", ParameterPayloads(n)) :
         LET out == fetchParameters(r) IN
         /\ resp' = r
         /\ IF out.raised # "none"
            THEN /\ pc' = "failed"
                 /\ failure' = out.raised
                 /\ UNCHANGED local
            ELSE /\ pc' = "gotParameters"
                 /\ local' = [local EXCEPT !.parameters = out.value]
                 /\ UNCHANGED failure
    /\ UNCHANGED <<today, initial_cut, call, openAQ, served>>

\* connect(), steps 5-6: fetch and join the measurements against the raw
\* locations and parameters, then keep the measured parameters under string keys.
connectLatest(n, m) ==
    /\ pc = "gotParameters"
    /\ \E r \in Responses("latest", LatestPayloads(n, m)) :
         LET out == fetchLatestMeasurements(r, local.locations, local.parameters) IN
         /\ resp' = r
         /\ IF out.raised # "none"
            THEN /\ pc' = "failed"
                 /\ failure' = out.raised
                 /\ UNCHANGED <<local, openAQ>>
            ELSE LET prepared == prepareParameters(local.parameters, out.value) IN
                 /\ local' = [local EXCEPT !.measurements = out.value]
                 /\ IF prepared.raised # "none"
                    THEN /\ pc' = "failed"
                         /\ failure' = prepared.raised
                         /\ openAQ' = [openAQ EXCEPT !.latestMeasurements = out.value]
                    ELSE /\ pc' = "ready"
                         /\ openAQ' = [openAQ EXCEPT !.latestMeasurements = out.value,
                                                     !.parameters = prepared.value]
                         /\ UNCHANGED failure
    /\ UNCHANGED <<today, initial_cut, call, served>>

\* connect() is called a second time on the same object.
connectAgain ==
    /\ pc = "ready"
    /\ call = "first"
    /\ call' = "second"
    /\ pc' = "constructed"
    /\ UNCHANGED <<today, initial_cut, resp, local, openAQ, failure, served>>

\* app = Flask(__name__) is reached, and so the routes exist, only when
\* openAQ.connect() has returned.
AppCreatedAnyway == pc \in {"ready", "failed"}
AppCreated == pc = "ready"

root ==
    /\ AppCreated
    /\ served' = [endpoint |-> "/",
                  body |-> [avaiable |-> <<"locations", "parameters",
                                           "latestMeasurements">>]]
    /\ UNCHANGED <<today, initial_cut, pc, call, resp, local, openAQ, failure>>

locations ==
    /\ AppCreated
    /\ served' = [endpoint |-> "/locations", body |-> openAQ.locations]
    /\ UNCHANGED <<today, initial_cut, pc, call, resp, local, openAQ, failure>>

parameters ==
    /\ AppCreated
    /\ served' = [endpoint |-> "/parameters", body |-> openAQ.parameters]
    /\ UNCHANGED <<today, initial_cut, pc, call, resp, local, openAQ, failure>>

measurementsDrain ==
    /\ AppCreated
    /\ served' = [endpoint |-> "/latestMeasurements",
                  body |-> openAQ.latestMeasurements]
    /\ openAQ' = [openAQ EXCEPT !.latestMeasurements = <<>>]
    /\ UNCHANGED <<today, initial_cut, pc, call, resp, local, failure>>
measurements ==
    /\ AppCreated
    /\ served' = [endpoint |-> "/latestMeasurements",
                  body |-> openAQ.latestMeasurements]
    /\ UNCHANGED <<today, initial_cut, pc, call, resp, local, openAQ, failure>>

Next ==
    \/ Tick
    \/ connectLocations(MaxLocs)
    \/ connectParameters(MaxParams)
    \/ connectLatest(MaxResults, MaxEntries)
    \/ root
    \/ locations
    \/ parameters
    \/ measurements

Spec == Init /\ [][Next]_vars

\* A driver that calls connect() twice in sequence on one store.
NextTwice ==
    \/ Tick
    \/ connectLocations(TwiceLocs)
    \/ connectParameters(TwiceParams)
    \/ connectLatest(TwiceResults, TwiceEntries)
    \/ connectAgain

SpecTwice == Init /\ [][NextTwice]_vars

----------------------------------------------------------------------------
\* Properties.

\* The date-time string s denotes an instant before the datetime cut.
Earlier(s, cut) == s[1] < cut.day \/ (s[1] = cut.day /\ s[2] < cut.sec)

\* C1: the locations returned by fetchLocations, and the mapping served by
\* GET /locations, hold no location last updated before midnight of the day the
\* DataFetcher was constructed, whatever the day of the call; a location of the
\* payload last updated at that midnight or later is in the mapping.
C1_RecencyCutoff ==
    /\ initial_cut = [day |-> 1, sec |-> 0]
    /\ \A i \in DOMAIN openAQ.locations :
          ~Earlier(openAQ.locations[i].v.lastUpdated, initial_cut)
    /\ served.endpoint = "/locations" =>
          \A i \in DOMAIN served.body :
             ~Earlier(served.body[i].v.lastUpdated, initial_cut)
    /\ pc = "gotLocations" =>
          /\ \A i \in DOMAIN local.locations :
                ~Earlier(local.locations[i].v.lastUpdated, initial_cut)
          /\ \A i \in DOMAIN resp.results :
                ~Earlier(resp.results[i].lastUpdated, initial_cut)
                   => resp.results[i].id \in DictKeys(local.locations)

\* A fetch on the day after construction met a location of yesterday, which it
\* dropped, and one last updated exactly at the cut, which it kept.
C1_Witness ==
    /\ pc = "gotLocations"
    /\ today = 2
    /\ Len(resp.results) = 2
    /\ resp.results[1].lastUpdated = Yesterday
    /\ resp.results[2].lastUpdated = Midnight
    /\ resp.results[1].id # resp.results[2].id
    /\ DictKeys(local.locations) = {resp.results[2].id}

MeasuredIds ==
    {local.measurements[j][2] : j \in DOMAIN local.measurements} \ {None}

\* C2: the mapping returned by prepareParameters holds no parameter whose id is
\* not the parameter id of some measurement tuple: a parameter of the catalog
\* without a measurement is absent from it.
C2_OnlyMeasuredParameters ==
    pc = "ready" =>
       /\ \A i \in DOMAIN openAQ.parameters :
             \E id \in MeasuredIds : openAQ.parameters[i].k = str(id)
       /\ \A id \in DictKeys(local.parameters) :
             id \notin MeasuredIds => str(id) \notin DictKeys(openAQ.parameters)

C2_Witness ==
    /\ pc = "ready"
    /\ DictKeys(local.parameters) = {1, 10}
    /\ MeasuredIds = {10}
    /\ DictKeys(openAQ.parameters) = {<<"1", "0">>}

DigitValue(c) == CHOOSE d \in 0..9 : Digits[d + 1] = c
RECURSIVE parseInt(_)
parseInt(s) ==
    IF Len(s) = 1 THEN DigitValue(s[1])
    ELSE parseInt(SubSeq(s, 1, Len(s) - 1)) * 10 + DigitValue(s[Len(s)])
IsDecimal(s) ==
    /\ Len(s) >= 1
    /\ \A i \in DOMAIN s : \E d \in 0..9 : Digits[d + 1] = s[i]

\* C3: every key of the served location mapping and of the served parameter
\* mapping is a decimal string that parses back to an id of the input mapping,
\* and prepareLocations keeps one entry per input location, value unchanged.
C3_KeysAreDecimalIds ==
    /\ pc \in {"gotLocations", "gotParameters", "ready"} =>
          /\ Len(openAQ.locations) = Len(local.locations)
          /\ \A i \in DOMAIN openAQ.locations :
                /\ IsDecimal(openAQ.locations[i].k)
                /\ parseInt(openAQ.locations[i].k) = local.locations[i].k
                /\ openAQ.locations[i].v = local.locations[i].v
    /\ pc = "ready" =>
          \A i \in DOMAIN openAQ.parameters :
             /\ IsDecimal(openAQ.parameters[i].k)
             /\ parseInt(openAQ.parameters[i].k) \in DictKeys(local.parameters)
             /\ openAQ.parameters[i].v =
                   DictItem(local.parameters, parseInt(openAQ.parameters[i].k)).v

C3_Witness ==
    /\ pc = "ready"
    /\ Len(openAQ.locations) = 2
    /\ openAQ.locations[1].k = <<"1", "2">>
    /\ openAQ.locations[2].k = <<"2">>
    /\ DictKeys(openAQ.parameters) = {<<"1", "0">>, <<"1">>}

\* Position of the tuple of entry j of result i in the flattened list.
RECURSIVE Offset(_, _)
Offset(results, i) ==
    IF i = 1 THEN 0
    ELSE Offset(results, i - 1) + Len(results[i - 1].measurements)
\* The id a name-to-id table built from the dict d gives for name.
Named(d, name) == {i \in DOMAIN d : d[i].v.name = name}
IdOfName(d, name) ==
    IF Named(d, name) = {} THEN None
    ELSE d[CHOOSE i \in Named(d, name) : \A h \in Named(d, name) : h <= i].k
LatestJoined == resp.kind = "latest" /\ resp.status = "ok"

\* C4: fetchLatestMeasurements emits one tuple (timestamp, parameter id,
\* location id, value) per raw measurement entry, without deduplication, in
\* upstream order, carrying the ids the names map to in the lookup tables.
C4_OneTuplePerEntry ==
    LatestJoined =>
       /\ Len(local.measurements) = Offset(resp.results, Len(resp.results) + 1)
       /\ \A i \in DOMAIN resp.results :
             \A j \in DOMAIN resp.results[i].measurements :
                LET entry == resp.results[i].measurements[j]
                    tuple == local.measurements[Offset(resp.results, i) + j]
                IN  /\ tuple[1] = [day |-> entry.lastUpdated[1],
                                   sec |-> entry.lastUpdated[2]]
                    /\ tuple[4] = entry.value
                    /\ Named(local.parameters, entry.parameter) # {} =>
                          tuple[2] = IdOfName(local.parameters, entry.parameter)
                    /\ Named(local.locations, resp.results[i].location) # {} =>
                          tuple[3] = IdOfName(local.locations,
                                              resp.results[i].location)

\* Two results of two entries each, the first result repeating one entry, all
\* names resolved, two locations sharing a name.
C4_Witness ==
    /\ pc = "ready"
    /\ Len(local.measurements) = 4
    /\ local.measurements[1] = local.measurements[2]
    /\ local.measurements[3] # local.measurements[4]
    /\ local.measurements[1][3] # local.measurements[3][3]
    /\ \A j \in 1..4 : /\ local.measurements[j][2] # None
                       /\ local.measurements[j][3] # None

\* C5: a location name or parameter name of the "latest" payload that is absent
\* from the lookup tables does not make fetchLatestMeasurements raise: the
\* measurement is emitted with None as its location id or parameter id, and the
\* tuples of resolved names carry their ids.
C5_LookupMissGivesNone ==
    LatestJoined =>
       /\ failure \notin {"transport", "shape"}
       /\ Len(local.measurements) = Offset(resp.results, Len(resp.results) + 1)
       /\ \A i \in DOMAIN resp.results :
             \A j \in DOMAIN resp.results[i].measurements :
                LET entry == resp.results[i].measurements[j]
                    tuple == local.measurements[Offset(resp.results, i) + j]
                IN  /\ (tuple[2] = None) <=>
                          (Named(local.parameters, entry.parameter) = {})
                    /\ (tuple[3] = None) <=>
                          (Named(local.locations, resp.results[i].location) = {})

\* One result names an unknown location, the other a known one.
C5_Witness ==
    /\ pc = "ready"
    /\ Len(resp.results) = 2
    /\ Len(local.measurements) = 2
    /\ local.measurements[1][3] = None
    /\ local.measurements[2][3] # None

\* C6: a lookup miss never aborts startup: connect() is aborted only by a
\* transport failure or a payload-shape failure.
C6_LookupMissNeverAborts ==
    pc = "failed" => failure \in {"transport", "shape"}

\* C7: once startup has completed the store is never written again, whatever
\* requests are served, and each route returns its collection as held (the root
\* returns the discovery document); nothing is served before the store is built.
C7_StoreReadOnly ==
    /\ [][pc = "ready" => openAQ' = openAQ /\ pc' = "ready"]_vars
    /\ [](served # NotServed => pc = "ready")
    /\ [](served.endpoint = "/" =>
             served.body = [avaiable |-> <<"locations", "parameters",
                                          "latestMeasurements">>])
    /\ [](served.endpoint = "/locations" => served.body = openAQ.locations)
    /\ [](served.endpoint = "/parameters" => served.body = openAQ.parameters)
    /\ [](served.endpoint = "/latestMeasurements" =>
             served.body = openAQ.latestMeasurements)

C7_Witness ==
    /\ served.endpoint = "/latestMeasurements"
    /\ Len(served.body) = 2
    /\ openAQ.locations # <<>>
    /\ openAQ.parameters # <<>>

\* C8: when a step of startup fails the server never becomes ready: no route is
\* ever served, also when part of the store was already filled.
C8_FailedStartupNeverServes ==
    /\ [][pc = "failed" => pc' = "failed"]_vars
    /\ [](pc = "failed" => served = NotServed)

\* The parameter call failed after the locations were stored.
C8_Witness ==
    /\ pc = "failed"
    /\ failure = "transport"
    /\ resp.kind = "parameters"
    /\ openAQ.locations # <<>>

\* C9: after a second connect() the collections derive from the payloads of the
\* second call only: nothing of the first call is carried over or accumulated.
C9_SecondSnapshotIndependent ==
    call = "second" =>
       /\ pc = "gotLocations" =>
             /\ DictKeys(local.locations)
                   \subseteq {resp.results[i].id : i \in DOMAIN resp.results}
             /\ DictKeys(openAQ.locations)
                   \subseteq {str(resp.results[i].id) : i \in DOMAIN resp.results}
       /\ pc = "gotParameters" =>
             DictKeys(local.parameters)
                \subseteq {resp.results[i].id : i \in DOMAIN resp.results}
       /\ pc = "ready" =>
             /\ Len(openAQ.latestMeasurements)
                   = Offset(resp.results, Len(resp.results) + 1)
             /\ DictKeys(openAQ.parameters)
                   \subseteq {str(id) : id \in DictKeys(local.parameters)}
             /\ DictKeys(openAQ.locations)
                   = {str(id) : id \in DictKeys(local.locations)}

\* The second call has replaced the location of the first snapshot, whose
\* measurement is still held, by another one.
C9_Witness ==
    /\ call = "second"
    /\ pc = "gotLocations"
    /\ Len(openAQ.latestMeasurements) = 1
    /\ openAQ.latestMeasurements[1][3] = 2
    /\ DictKeys(openAQ.locations) = {<<"1", "2">>}

\* C10: in a completed snapshot the parameter id of every held measurement, as
\* a decimal string, is a key of the served parameter mapping, whose keys are
\* exactly those ids, and its location id, when not None, as a decimal string,
\* is a key of the served location mapping.
C10_ReferentialIntegrity ==
    pc = "ready" =>
       /\ \A j \in DOMAIN openAQ.latestMeasurements :
             /\ openAQ.latestMeasurements[j][2] # None
             /\ str(openAQ.latestMeasurements[j][2]) \in DictKeys(openAQ.parameters)
             /\ openAQ.latestMeasurements[j][3] # None =>
                   str(openAQ.latestMeasurements[j][3])
                      \in DictKeys(openAQ.locations)
       /\ \A i \in DOMAIN openAQ.parameters :
             \E j \in DOMAIN openAQ.latestMeasurements :
                /\ openAQ.latestMeasurements[j][2] # None
                /\ openAQ.parameters[i].k = str(openAQ.latestMeasurements[j][2])

C10_Witness ==
    /\ pc = "ready"
    /\ Len(openAQ.latestMeasurements) = 3
    /\ openAQ.latestMeasurements[1][3] = None
    /\ openAQ.latestMeasurements[2][3] = 12
    /\ openAQ.latestMeasurements[2][2] = 1
    /\ openAQ.latestMeasurements[3][2] = 10

====
